---- MODULE Spec2Model ----
(***************************************************************************)
(* Crypto Price Alert (src/main.py): the symbol helpers, the six-source    *)
(* price fallback chain fetch_price_multi, and CryptoAlertApp on the Tk    *)
(* event loop: check_prices driven by the periodic timer, the initial      *)
(* one-second check and manual refresh, and the handlers that add, edit    *)
(* and delete rules and save the settings.                                 *)
(*                                                                         *)
(* Four specifications share the module:                                   *)
(*   SpecSym     normalize_symbol and the per-source translators           *)
(*   SpecFetch   fetch_price_multi, one step per source                    *)
(*   Spec        the application with passes that nest                     *)
(*   SpecSerial  the application with every handler, one pass at a time    *)
(* Strings are sequences of one-character strings.                         *)
(***************************************************************************)
EXTENDS Integers, Sequences, FiniteSets, TLC

VARIABLES
    \* ---- SpecSym
    sym,            \* the raw text given to normalize_symbol
    assume_quote,   \* its assume_quote argument
    spc,            \* "raw" | "canonical" | "again" | "translated"
    canon,          \* normalize_symbol(sym, assume_quote)
    canon2,         \* normalize_symbol(canon, assume_quote)
    pairs,          \* the six instrument strings built from canon
    \* ---- SpecFetch
    outcomes,       \* what each of the six endpoints answers, in source order
    fst,            \* the running call: [pc, errors, requested, price]
    \* ---- Spec (CryptoAlertApp)
    coins,          \* self.coins: the rule dicts in list order, by id
    dicts,          \* the rule dict of each id: symbol, target_price, condition
    next_id,        \* the next fresh id (uuid4 never repeats)
    stack,          \* the handlers running on the Tk thread, innermost last
    check_interval_seconds,  \* self.settings["check_interval_seconds"]
    poll_timers,    \* pending after(interval_ms, self._on_poll_timer) callbacks:
                    \* the delay in ms each was armed with, in arming order
    initial_check,  \* the after(1000, self.check_prices) callback is pending
    _polling,       \* self._polling
    status_var,     \* self.status_var: [key, args]
    alarms          \* history: AlarmWindows created so far, per rule id

symVars == <<sym, assume_quote, spc, canon, canon2, pairs>>
fetchVars == <<outcomes, fst>>
appVars == <<coins, dicts, next_id, stack, check_interval_seconds, poll_timers,
             initial_check, _polling, status_var, alarms>>
vars == <<symVars, fetchVars, appVars>>

(***************************************************************************)
(* Bounds                                                                  *)
(***************************************************************************)
MaxBaseLen == 3     \* longest text in front of the suffix of a raw symbol
MaxPrice == 3       \* prices are 1..MaxPrice
TargetPrice == 2    \* the target price of the rules, inside 1..MaxPrice
MaxIds == 2         \* rule ids ever created
MaxDepth == 2       \* handlers nested on the Tk thread

(***************************************************************************)
(* Text helpers (str.strip, str.upper, str.replace(x, ""), str.endswith)   *)
(***************************************************************************)
USDT == <<"U", "S", "D", "T">>
usdt == <<"u", "s", "d", "t">>

IsSpace(c) == c = " "

RECURSIVE lstrip(_)
lstrip(s) == IF s # <<>> /\ IsSpace(Head(s)) THEN lstrip(Tail(s)) ELSE s

RECURSIVE rstrip(_)
rstrip(s) ==
    IF s # <<>> /\ IsSpace(s[Len(s)]) THEN rstrip(SubSeq(s, 1, Len(s) - 1)) ELSE s

strip(s) == rstrip(lstrip(s))

UpperChar(c) ==
    CASE c = "a" -> "A"
      [] c = "u" -> "U"
      [] c = "s" -> "S"
      [] c = "d" -> "D"
      [] c = "t" -> "T"
      [] OTHER -> c

upper(s) == [i \in 1..Len(s) |-> UpperChar(s[i])]

\* s.replace(c, "")
remove(s, c) == SelectSeq(s, LAMBDA x : x # c)

endswith(s, suf) ==
    /\ Len(suf) <= Len(s)
    /\ SubSeq(s, Len(s) - Len(suf) + 1, Len(s)) = suf

\* s[:-4]
drop4(s) == SubSeq(s, 1, Len(s) - 4)

\* sym.upper().replace("/", "").replace("-", "")
clean(s) == remove(remove(upper(s), "/"), "-")

(***************************************************************************)
(* normalize_symbol and the per-source translators                         *)
(***************************************************************************)
ShortLen == 5

normalize_symbol(s0, q) ==
    LET s == remove(remove(upper(strip(s0)), "/"), "-")
    IN  IF s = <<>> THEN <<>>
        ELSE IF Len(s) <= ShortLen /\ ~endswith(s, q) THEN s \o q
        ELSE s

_sym_binance(s0) ==
    LET s == clean(s0)
    IN  IF endswith(s, USDT) THEN s
        ELSE IF Len(s) <= ShortLen THEN s \o USDT
        ELSE s

_sym_bybit(s0) == _sym_binance(s0)

_sym_bitunix(s0) == _sym_binance(s0)

_sym_coinbase(s0) ==
    LET s == clean(s0)
        base == IF endswith(s, USDT) THEN drop4(s) ELSE s
    IN  base \o <<"-", "U", "S", "D">>

_sym_upbit_as_okx(s0) ==
    LET s == clean(s0)
        base == IF endswith(s, USDT) THEN drop4(s) ELSE s
    IN  base \o <<"-">> \o USDT

_sym_upbit(s0) ==
    LET s == clean(s0)
        base == IF endswith(s, USDT) THEN drop4(s) ELSE s
    IN  USDT \o <<"-">> \o base

_sym_okx(s0) ==
    LET s == clean(s0)
        base == IF endswith(s, USDT) THEN drop4(s) ELSE s
    IN  base \o <<"-">> \o USDT

(***************************************************************************)
(* SpecSym: a raw symbol and a quote are drawn, normalize_symbol is        *)
(* applied, then applied again to its own result, and the six translators  *)
(* are applied to the canonical symbol.                                    *)
(***************************************************************************)
BaseAlphabet == {"A", "a", " ", "-", "/"}

Texts(n) == UNION {[1..k -> BaseAlphabet] : k \in 0..n}

Suffixes == {<<>>, USDT, usdt}

RawSymbols == {b \o x : b \in Texts(MaxBaseLen), x \in Suffixes}

\* the default quote, and two shorter ones
Quotes == {USDT, <<"U", "S", "D">>, <<"U">>}

NoPairs == [binance |-> <<>>, bitunix |-> <<>>, bybit |-> <<>>,
            coinbase |-> <<>>, upbit |-> <<>>, okx |-> <<>>]

SymIdle ==
    /\ sym = <<>> /\ assume_quote = USDT /\ spc = "off"
    /\ canon = <<>> /\ canon2 = <<>> /\ pairs = NoPairs

SymInit ==
    /\ sym \in RawSymbols
    /\ assume_quote \in Quotes
    /\ spc = "raw"
    /\ canon = <<>>
    /\ canon2 = <<>>
    /\ pairs = NoPairs

Normalize ==
    /\ spc = "raw"
    /\ canon' = normalize_symbol(sym, assume_quote)
    /\ spc' = "canonical"
    /\ UNCHANGED <<sym, assume_quote, canon2, pairs, fetchVars, appVars>>

NormalizeAgain ==
    /\ spc = "canonical"
    /\ canon2' = normalize_symbol(canon, assume_quote)
    /\ spc' = "again"
    /\ UNCHANGED <<sym, assume_quote, canon, pairs, fetchVars, appVars>>

Translate ==
    /\ spc = "again"
    /\ pairs' = [binance |-> _sym_binance(canon),
                 bitunix |-> _sym_bitunix(canon),
                 bybit |-> _sym_bybit(canon),
                 coinbase |-> _sym_coinbase(canon),
                 upbit |-> _sym_upbit(canon),
                 okx |-> _sym_okx(canon)]
    /\ spc' = "translated"
    /\ UNCHANGED <<sym, assume_quote, canon, canon2, fetchVars, appVars>>

(***************************************************************************)
(* fetch_price_multi.  An endpoint answers with a price (a body carrying   *)
(* the price at the source's path) or fails in one of three ways:          *)
(*   "neterr"   _http_json raises (network error, timeout, HTTP status)    *)
(*   "nofield"  the body lacks the price field                             *)
(*   "empty"    the body's result list is empty (a flat body, as Binance   *)
(*              and Coinbase expect, then has no 'price' key)              *)
(***************************************************************************)
Prices == 1..MaxPrice

Failures == {"neterr", "nofield", "empty"}

\* an endpoint's answer: a price (kind "price", v the price) or a failure
Responses == [kind : {"price"}, v : Prices] \cup [kind : Failures, v : {0}]

Answer(p) == [kind |-> "price", v |-> p]

Fails(f) == [kind |-> f, v |-> 0]

SourceOrder == <<"Binance", "BitUnix", "Bybit", "Coinbase", "Upbit", "OKX">>

NSources == Len(SourceOrder)

Start == [pc |-> "Binance", errors |-> <<>>, requested |-> <<>>, price |-> 0]

\* return float(...)
Returned(st, src, p) ==
    [st EXCEPT !.pc = "returned", !.price = p,
               !.requested = Append(st.requested, src)]

\* except Exception as e: errors.append(f"{src}: {e}"), then the next block
Failed(st, src, e, next) ==
    [st EXCEPT !.pc = next,
               !.errors = Append(st.errors, [source |-> src, e |-> e]),
               !.requested = Append(st.requested, src)]

\* data["price"] of a flat body
FlatError(r) == IF r.kind = "neterr" THEN "neterr" ELSE "KeyError"

\* items[0][field] behind "if items: ... raise RuntimeError(msg)"
ListError(r, msg) ==
    CASE r.kind = "neterr" -> "neterr"
      [] r.kind = "empty" -> msg
      [] OTHER -> "KeyError"

try_binance(st, r) ==
    IF r.kind = "price" THEN Returned(st, "Binance", r.v)
    ELSE Failed(st, "Binance", FlatError(r), "BitUnix")

try_bitunix(st, r) ==
    IF r.kind = "price" THEN Returned(st, "BitUnix", r.v)
    ELSE Failed(st, "BitUnix", ListError(r, "empty list"), "Bybit")

try_bybit_falls_through(st, r) == Failed(st, "Bybit", "KeyError", "Coinbase")

try_bybit(st, r) ==
    IF r.kind = "price" THEN Returned(st, "Bybit", r.v)
    ELSE Failed(st, "Bybit", ListError(r, "empty list"), "Coinbase")

try_coinbase(st, r) ==
    IF r.kind = "price" THEN Returned(st, "Coinbase", r.v)
    ELSE Failed(st, "Coinbase", FlatError(r), "Upbit")

try_upbit(st, r) ==
    IF r.kind = "price" THEN Returned(st, "Upbit", r.v)
    ELSE Failed(st, "Upbit", ListError(r, "empty list"), "OKX")

try_okx_empty_is_zero(st, r) ==
    IF r.kind \in {"price", "empty"} THEN Returned(st, "OKX", r.v)
    ELSE Failed(st, "OKX", ListError(r, "empty data"), "raise")

try_okx(st, r) ==
    IF r.kind = "price" THEN Returned(st, "OKX", r.v)
    ELSE Failed(st, "OKX", ListError(r, "empty data"), "raise")

\* raise RuntimeError("All price sources failed: " + " | ".join(errors))
raise_all_failed(st) == [st EXCEPT !.pc = "raised"]

FetchDone(st) == st.pc \in {"returned", "raised"}

\* one block of fetch_price_multi, o the six endpoints' answers
FetchStep(st, o) ==
    CASE st.pc = "Binance" -> try_binance(st, o[1])
      [] st.pc = "BitUnix" -> try_bitunix(st, o[2])
      [] st.pc = "Bybit" -> try_bybit(st, o[3])
      [] st.pc = "Coinbase" -> try_coinbase(st, o[4])
      [] st.pc = "Upbit" -> try_upbit(st, o[5])
      [] st.pc = "OKX" -> try_okx(st, o[6])
      [] st.pc = "raise" -> raise_all_failed(st)
      [] OTHER -> st

RECURSIVE FetchRun(_, _)
FetchRun(st, o) == IF FetchDone(st) THEN st ELSE FetchRun(FetchStep(st, o), o)

\* the whole call, as check_prices sees it
fetch_price_multi(o) == FetchRun(Start, o)

(***************************************************************************)
(* SpecFetch: the answers of the six endpoints are drawn, and the call     *)
(* runs one block at a time.                                               *)
(***************************************************************************)
OutcomeVectors == [1..NSources -> Responses]

FetchIdle ==
    /\ outcomes = <<>>
    /\ fst = [pc |-> "off", errors |-> <<>>, requested |-> <<>>, price |-> 0]

FetchInit ==
    /\ outcomes \in OutcomeVectors
    /\ fst = Start

TryBinance ==
    /\ fst.pc = "Binance"
    /\ fst' = try_binance(fst, outcomes[1])
    /\ UNCHANGED <<outcomes, symVars, appVars>>

TryBitUnix ==
    /\ fst.pc = "BitUnix"
    /\ fst' = try_bitunix(fst, outcomes[2])
    /\ UNCHANGED <<outcomes, symVars, appVars>>

TryBybit ==
    /\ fst.pc = "Bybit"
    /\ fst' = try_bybit(fst, outcomes[3])
    /\ UNCHANGED <<outcomes, symVars, appVars>>

TryCoinbase ==
    /\ fst.pc = "Coinbase"
    /\ fst' = try_coinbase(fst, outcomes[4])
    /\ UNCHANGED <<outcomes, symVars, appVars>>

TryUpbit ==
    /\ fst.pc = "Upbit"
    /\ fst' = try_upbit(fst, outcomes[5])
    /\ UNCHANGED <<outcomes, symVars, appVars>>

TryOKX ==
    /\ fst.pc = "OKX"
    /\ fst' = try_okx(fst, outcomes[6])
    /\ UNCHANGED <<outcomes, symVars, appVars>>

RaiseAllFailed ==
    /\ fst.pc = "raise"
    /\ fst' = raise_all_failed(fst)
    /\ UNCHANGED <<outcomes, symVars, appVars>>

FetchNext ==
    \/ TryBinance \/ TryBitUnix \/ TryBybit \/ TryCoinbase
    \/ TryUpbit \/ TryOKX \/ RaiseAllFailed

(***************************************************************************)
(* CryptoAlertApp.  Everything runs on the Tk thread.  A handler that      *)
(* reaches self.update() (line 713) dispatches every pending event from    *)
(* inside the handler; one that opens a modal messagebox dispatches the    *)
(* timer callbacks while the box is open.  stack holds the handlers that   *)
(* are suspended that way, innermost last; only the innermost one runs.    *)
(***************************************************************************)
Ids == 1..MaxIds

\* A Python float: a number, or nan.
Num(v) == [kind |-> "num", v |-> v]

NaN == [kind |-> "nan", v |-> 0]

\* a <= b, a >= b, a < b, a > b on floats: False as soon as one side is nan
LE(a, b) == a.kind = "num" /\ b.kind = "num" /\ a.v <= b.v

GE(a, b) == a.kind = "num" /\ b.kind = "num" /\ a.v >= b.v

LT(a, b) == a.kind = "num" /\ b.kind = "num" /\ a.v < b.v

GT(a, b) == a.kind = "num" /\ b.kind = "num" /\ a.v > b.v

\* The text of a price entry: decimal digits of a number, "nan", or a text
\* that is no float literal (the empty entry among them).
Digits(v) == [kind |-> "digits", v |-> v]

NanText == [kind |-> "nan", v |-> 0]

NoFloatText == [kind |-> "other", v |-> 0]

\* float(text): the number, nan, or ValueError
float(t) ==
    CASE t.kind = "digits" -> Num(t.v)
      [] t.kind = "nan" -> NaN
      [] OTHER -> [kind |-> "ValueError", v |-> 0]

NoDict == [symbol |-> <<>>, target_price |-> Num(0), condition |-> ""]

Conditions == {">=", "<="}

\* the rules a database file may hold
RuleDicts ==
    [symbol : {<<"A">> \o USDT}, target_price : {Num(TargetPrice)},
     condition : Conditions]

Status(key, args) == [key |-> key, args |-> args]

InSeq(x, s) == \E j \in 1..Len(s) : s[j] = x

Depth == Len(stack)

Top == stack[Len(stack)]

Pop == SubSeq(stack, 1, Len(stack) - 1)

ReplaceTop(f) == [stack EXCEPT ![Len(stack)] = f]

\* The rule dicts that are still referenced: by the list cs, or by the
\* snapshot of a pass on the stack st.  The others are garbage.
referenced(cs, st) ==
    {cs[j] : j \in 1..Len(cs)}
    \cup UNION {{st[k].snapshot[j] : j \in 1..Len(st[k].snapshot)} : k \in 1..Len(st)}

collect(ds, cs, st) ==
    [x \in Ids |-> IF x \in referenced(cs, st) THEN ds[x] ELSE NoDict]

\* mainloop() is idle, or the innermost handler is inside self.update()
DispatchesAll == IF stack = <<>> THEN TRUE ELSE Top.pc = "update"

\* as above, or the innermost handler waits in its modal warning box
DispatchesTimers ==
    IF stack = <<>> THEN TRUE ELSE Top.pc \in {"update", "warn"}

\* check_prices past "if not self.coins": the locals of the pass.
\* fetched and failed are history: the rules fetch_price_multi was called for,
\* and how many of the calls raised.
NewPass(by) ==
    [op |-> "check_prices", by |-> by, pc |-> "loop", snapshot |-> coins, i |-> 1,
     to_remove_ids |-> <<>>, last_errors |-> 0, price |-> 0, cond |-> "",
     target |-> Num(0), hit |-> FALSE, fetched |-> <<>>, failed |-> 0]

\* DEFAULT_SETTINGS["check_interval_seconds"], and the least interval
\* save_settings accepts
DefaultInterval == 60

MinInterval == 10

Intervals == {MinInterval, DefaultInterval}

\* interval_ms = int(self.settings.get("check_interval_seconds", 60)) * 1000
interval_ms_default == DefaultInterval * 1000

interval_ms == check_interval_seconds * 1000

\* self.after(ms, self._on_poll_timer)
arm_poll_timer(timers, ms) == Append(timers, ms)

\* the pending callbacks once the k-th has fired
fired(timers, k) == SubSeq(timers, 1, k - 1) \o SubSeq(timers, k + 1, Len(timers))

AppInit ==
    /\ \E d \in RuleDicts :
          \/ coins = <<>> /\ dicts = [x \in Ids |-> NoDict] /\ next_id = 1
          \/ coins = <<1>> /\ dicts = [x \in Ids |-> IF x = 1 THEN d ELSE NoDict]
                /\ next_id = 2
    /\ stack = <<>>
    /\ check_interval_seconds = DefaultInterval
    /\ poll_timers = arm_poll_timer(<<>>, interval_ms)
    /\ initial_check = TRUE
    /\ _polling = TRUE
    /\ status_var = Status("ready", {})
    /\ alarms = [x \in Ids |-> 0]

AppIdle ==
    /\ coins = <<>> /\ dicts = [x \in Ids |-> NoDict] /\ next_id = 1
    /\ stack = <<>> /\ check_interval_seconds = DefaultInterval /\ poll_timers = <<>>
    /\ initial_check = FALSE /\ _polling = FALSE
    /\ status_var = Status("ready", {})
    /\ alarms = [x \in Ids |-> 0]

\* _schedule_poll, timers the callbacks pending when it is called
schedule_poll(timers) ==
    /\ poll_timers' = arm_poll_timer(timers, interval_ms)
    /\ IF ~_polling
       THEN _polling' = TRUE /\ initial_check' = TRUE
       ELSE UNCHANGED <<_polling, initial_check>>

\* check_prices is called: either it returns at once on an empty list, or the
\* pass starts with its snapshot.
check_prices(by) ==
    IF coins = <<>>
    THEN /\ status_var' = Status("no_alerts", {})
         /\ UNCHANGED stack
    ELSE /\ Depth < MaxDepth
         /\ stack' = Append(stack, NewPass(by))
         /\ UNCHANGED status_var

\* _on_poll_timer: the periodic timer fires.  Tk runs timers in the order they
\* fall due, and the interval is 60 s by default and at least 10 s once saved,
\* so the one-second initial check has run before the first periodic timer.
OnPollTimer ==
    /\ DispatchesTimers
    /\ ~initial_check
    /\ \E k \in 1..Len(poll_timers) :
          IF coins = <<>>
          THEN schedule_poll(fired(poll_timers, k))
          ELSE poll_timers' = fired(poll_timers, k)
                  /\ UNCHANGED <<_polling, initial_check>>
    /\ check_prices("timer")
    /\ UNCHANGED <<coins, dicts, next_id, alarms, check_interval_seconds,
                   symVars, fetchVars>>

\* the after(1000, self.check_prices) callback fires
InitialCheck ==
    /\ DispatchesTimers
    /\ initial_check
    /\ initial_check' = FALSE
    /\ check_prices("initial")
    /\ UNCHANGED <<coins, dicts, next_id, poll_timers, _polling, alarms,
                   check_interval_seconds,
                   symVars, fetchVars>>

\* manual_refresh: the "Refresh now" button
ManualRefresh ==
    /\ DispatchesAll
    /\ check_prices("manual")
    /\ UNCHANGED <<coins, dicts, next_id, poll_timers, initial_check,
                   _polling, alarms, check_interval_seconds,
                   symVars, fetchVars>>

\* hit = (price >= target) if cond == ">=" else (price <= target)
HitStrict(cond, price, target) ==
    IF cond = ">=" THEN GT(price, target) ELSE LT(price, target)

Hit(cond, price, target) ==
    IF cond = ">=" THEN GE(price, target) ELSE LE(price, target)

\* except RuntimeError: the warning box opens
on_all_failed(f, id) ==
    [f EXCEPT !.pc = "warn", !.fetched = Append(@, id), !.failed = @ + 1]

\* lines 703-710, up to self.update()
evaluate(f, id, price) ==
    LET cond == dicts[id].condition
        target == dicts[id].target_price
        hit == Hit(cond, Num(price), target)
    IN  [f EXCEPT !.price = price, !.cond = cond, !.target = target, !.hit = hit,
                  !.to_remove_ids = IF hit THEN Append(@, id) ELSE @,
                  !.fetched = Append(@, id),
                  !.pc = "update"]

\* the box is closed: log, last_errors.append, continue
after_warning_break(f) ==
    [f EXCEPT !.last_errors = @ + 1, !.i = Len(f.snapshot) + 1, !.pc = "loop"]

after_warning(f) ==
    [f EXCEPT !.last_errors = @ + 1, !.i = @ + 1, !.pc = "loop"]

\* self.update() returns: sleep, next rule.  price, cond, target and hit are
\* assigned again before the loop body reads them, so they are kept only for
\* the turn that assigned them.
after_update(f) ==
    [f EXCEPT !.i = @ + 1, !.pc = "loop", !.price = 0, !.cond = "",
              !.target = Num(0), !.hit = FALSE]

\* the answers the endpoints may give to one call of fetch_price_multi
AppOutcomes ==
    {[s \in 1..NSources |-> Fails(f)] : f \in Failures}
    \cup {[s \in 1..NSources |-> IF s < k THEN Fails("neterr") ELSE Answer(p)] :
            k \in {1, NSources}, p \in Prices}

\* one turn of "for coin in list(self.coins)", up to the warning box or update()
PassFetch ==
    /\ stack # <<>>
    /\ Top.op = "check_prices" /\ Top.pc = "loop" /\ Top.i <= Len(Top.snapshot)
    /\ \E o \in AppOutcomes :
          LET id == Top.snapshot[Top.i]
              r == fetch_price_multi(o)
          IN  IF r.pc = "raised"
              THEN /\ stack' = ReplaceTop(on_all_failed(Top, id))
                   /\ UNCHANGED alarms
              ELSE LET f == evaluate(Top, id, r.price)
                   IN  /\ stack' = ReplaceTop(f)
                       /\ alarms' = IF f.hit THEN [alarms EXCEPT ![id] = @ + 1]
                                    ELSE alarms
    /\ UNCHANGED <<coins, dicts, next_id, poll_timers, initial_check,
                   _polling, status_var, check_interval_seconds,
                   symVars, fetchVars>>

\* the user closes the "symbol not found" box of a pass
AckWarning ==
    /\ stack # <<>>
    /\ Top.op = "check_prices" /\ Top.pc = "warn"
    /\ stack' = ReplaceTop(after_warning(Top))
    /\ UNCHANGED <<coins, dicts, next_id, poll_timers, initial_check,
                   _polling, status_var, alarms, check_interval_seconds,
                   symVars, fetchVars>>

\* self.update() has no more pending events
UpdateReturns ==
    /\ stack # <<>>
    /\ Top.op = "check_prices" /\ Top.pc = "update"
    /\ stack' = ReplaceTop(after_update(Top))
    /\ UNCHANGED <<coins, dicts, next_id, poll_timers, initial_check,
                   _polling, status_var, alarms, check_interval_seconds,
                   symVars, fetchVars>>

\* the status line of a pass that went through its snapshot
final_status_always_ok(f) == Status("last_check_ok", {})

final_status(f) ==
    IF f.last_errors > 0
    THEN Status("last_check_errors", {<<"n", f.last_errors>>})
    ELSE Status("last_check_ok", {})

\* self.coins = [c for c in self.coins if c["id"] not in to_remove_ids]
remaining_of_snapshot(cs, f) ==
    SelectSeq(f.snapshot, LAMBDA c : ~InSeq(c, f.to_remove_ids))

remaining(cs, f) == SelectSeq(cs, LAMBDA c : ~InSeq(c, f.to_remove_ids))

\* _schedule_poll follows the pass only in _on_poll_timer
rearms_always(by) == TRUE

rearms(by) == by = "timer"

\* lines 716-726: removal, save, refresh_tree, status; then the caller goes on
PassFinish ==
    /\ stack # <<>>
    /\ Top.op = "check_prices" /\ Top.pc = "loop" /\ Top.i > Len(Top.snapshot)
    /\ IF Top.to_remove_ids # <<>>
       THEN coins' = remaining(coins, Top)
       ELSE UNCHANGED coins
    /\ status_var' = final_status(Top)
    /\ stack' = Pop
    /\ dicts' = collect(dicts, coins', stack')
    /\ IF rearms(Top.by)
       THEN schedule_poll(poll_timers)
       ELSE UNCHANGED <<poll_timers, _polling, initial_check>>
    /\ UNCHANGED <<next_id, alarms, check_interval_seconds, symVars, fetchVars>>

\* the texts the user may have typed into the add form
AddSymbols == {<<"a">>, <<" ">>}

\* the texts of the price entry: "0", the target price, "nan", and ""
AddPrices == {Digits(0), Digits(TargetPrice), NanText, NoFloatText}

\* add_alert.  A rejected input opens a warning box and returns when the box
\* is closed, changing nothing: while the box is open the timers are
\* dispatched as by an idle main loop that receives no user event.
AddAlert ==
    /\ DispatchesAll
    /\ \E sym_raw \in AddSymbols, price_raw \in AddPrices, cond \in Conditions :
          LET s == normalize_symbol(sym_raw, USDT)
              price == float(price_raw)
          IN  IF \/ s = <<>>
                 \/ price.kind = "ValueError"
                 \/ LE(price, Num(0))
                 \/ cond \notin Conditions
              THEN UNCHANGED <<coins, dicts, next_id>>
              ELSE /\ next_id <= MaxIds
                   /\ dicts' = [dicts EXCEPT ![next_id] =
                                   [symbol |-> s, target_price |-> price,
                                    condition |-> cond]]
                   /\ coins' = Append(coins, next_id)
                   /\ next_id' = next_id + 1
    /\ UNCHANGED <<stack, poll_timers, initial_check, _polling, status_var, alarms,
                   check_interval_seconds,
                   symVars, fetchVars>>

\* EditCoinDialog.validate: the dialog's result, or NoDict (self.result stays
\* None) when a warning box is shown instead
validate(sym_raw, price_raw, cond) ==
    LET s == normalize_symbol(sym_raw, USDT)
        price == float(price_raw)
    IN  IF \/ s = <<>>
           \/ price.kind = "ValueError"
           \/ LE(price, Num(0))
           \/ cond \notin Conditions
        THEN NoDict
        ELSE [symbol |-> s, target_price |-> price, condition |-> cond]

\* edit_selected: the selected rule is edited in the dialog, which closes by
\* OK on entries that validate, or by Cancel.  The dict of the rule is updated
\* in place, so a pass that holds it in its snapshot reads the new fields.
\* The dialog is opened and closed with no timer falling due in between.
EditSelected ==
    /\ DispatchesAll
    /\ \E item \in {0} \cup {coins[j] : j \in 1..Len(coins)},
          sym_raw \in AddSymbols, price_raw \in AddPrices, cond \in Conditions :
          LET result == validate(sym_raw, price_raw, cond)
          IN  IF item = 0 \/ result = NoDict
              THEN UNCHANGED dicts
              ELSE dicts' = [dicts EXCEPT ![item] = result]
    /\ UNCHANGED <<coins, stack, next_id, poll_timers, initial_check, _polling,
                   status_var, alarms, check_interval_seconds,
                   symVars, fetchVars>>

\* the texts of the interval entry and of the auto-silence entry
IntervalTexts ==
    {Digits(MinInterval - 1), Digits(MinInterval), Digits(DefaultInterval), NanText}

SilenceTexts == {Digits(0), Digits(DefaultInterval)}

\* int(float(text)): the integer, or ValueError (int(nan) raises it too)
int_float(t) ==
    IF float(t).kind = "num" THEN float(t) ELSE [kind |-> "ValueError", v |-> 0]

\* save_settings.  A rejected entry opens a warning box and changes nothing.
\* auto_silence_seconds is read by AlarmWindow only and is not kept here.
SaveSettings ==
    /\ DispatchesAll
    /\ \E interval_raw \in IntervalTexts, silence_raw \in SilenceTexts :
          LET interval == int_float(interval_raw)
              silence == int_float(silence_raw)
          IN  IF \/ interval.kind = "ValueError"
                 \/ silence.kind = "ValueError"
                 \/ interval.v < MinInterval
                 \/ silence.v < 1
              THEN UNCHANGED <<check_interval_seconds, status_var>>
              ELSE /\ check_interval_seconds' = interval.v
                   /\ status_var' = Status("settings_saved", {})
    /\ UNCHANGED <<coins, dicts, next_id, stack, poll_timers, initial_check,
                   _polling, alarms, symVars, fetchVars>>

\* delete_selected; item is self.tree.selection(): a row of the tree, which
\* refresh_tree keeps equal to self.coins, or 0 when no row is selected
DeleteSelected ==
    /\ DispatchesAll
    /\ \E item \in {0} \cup {coins[j] : j \in 1..Len(coins)} :
          IF item = 0
          THEN UNCHANGED coins
          ELSE coins' = SelectSeq(coins, LAMBDA c : c # item)
    /\ dicts' = collect(dicts, coins', stack)
    /\ UNCHANGED <<stack, next_id, poll_timers, initial_check, _polling,
                   status_var, alarms, check_interval_seconds,
                   symVars, fetchVars>>

\* The handlers as the event loop runs them, a pass inside a pass included,
\* for a user who adds and deletes rules and refreshes, and leaves the rules
\* and the settings unedited.
AppNext ==
    \/ OnPollTimer \/ InitialCheck \/ ManualRefresh
    \/ PassFetch \/ AckWarning \/ UpdateReturns \/ PassFinish
    \/ AddAlert \/ DeleteSelected

SymNext == Normalize \/ NormalizeAgain \/ Translate

InitSym == SymInit /\ FetchIdle /\ AppIdle

SpecSym == InitSym /\ [][SymNext]_vars

InitFetch == FetchInit /\ SymIdle /\ AppIdle

SpecFetch == InitFetch /\ [][FetchNext]_vars

Init == AppInit /\ SymIdle /\ FetchIdle

Spec == Init /\ [][AppNext]_vars

\* Every handler, in the behaviours in which no pass starts while another is
\* running:
\* the timers do not expire and "Refresh now" is not clicked during a pass
\* (a call of check_prices on an empty list, which returns at once, may still
\* come in between; so may the user's add, edit, delete and save).
NoPassRunning == stack = <<>> \/ coins = <<>>

SerialNext ==
    \/ NoPassRunning /\ OnPollTimer
    \/ NoPassRunning /\ InitialCheck
    \/ NoPassRunning /\ ManualRefresh
    \/ PassFetch \/ AckWarning \/ UpdateReturns \/ PassFinish
    \/ AddAlert \/ EditSelected \/ DeleteSelected \/ SaveSettings

SpecSerial == Init /\ [][SerialNext]_vars

(***************************************************************************)
(* Properties                                                              *)
(***************************************************************************)
Failing(j) == outcomes[j].kind \in Failures

\* C1: fetch_price_multi requests the sources in the order Binance, BitUnix,
\* Bybit, Coinbase, Upbit, OKX; it never requests a source after one that
\* answered with a price; the errors recorded so far are the failures of the
\* sources requested before, in that order; and it returns the price of the
\* first source that answers.
C1_FirstSuccessInOrder ==
    fst.pc # "off" =>
        LET n == Len(fst.requested)
        IN  /\ fst.requested = SubSeq(SourceOrder, 1, n)
            /\ \A i \in 1..n : \A j \in 1..(i - 1) : Failing(j)
            /\ Len(fst.errors) = IF fst.pc = "returned" THEN n - 1 ELSE n
            /\ \A j \in 1..Len(fst.errors) :
                  fst.errors[j].source = SourceOrder[j] /\ Failing(j)
            /\ fst.pc = "returned" =>
                  /\ n >= 1
                  /\ outcomes[n].kind = "price"
                  /\ fst.price = outcomes[n].v

\* the third source is the first to answer, and a later one would answer too
C1_Witness ==
    /\ fst.pc = "returned"
    /\ Len(fst.requested) = 3
    /\ Len(fst.errors) = 2
    /\ outcomes[5].kind = "price"
    /\ outcomes[5].v # fst.price

\* C2: the call ends in the all-sources-failed error exactly when each of the
\* six sources fails, the error then carries one entry per source in source
\* order, and a call that has not ended can always take its next step.
C2_AllFailedIffEverySourceFails ==
    /\ FetchDone(fst) => ((fst.pc = "raised") <=> \A j \in 1..NSources : Failing(j))
    /\ fst.pc = "raised" =>
          /\ Len(fst.errors) = NSources
          /\ \A j \in 1..NSources : fst.errors[j].source = SourceOrder[j]
    /\ (fst.pc # "off" /\ ~FetchDone(fst)) => ENABLED FetchNext

\* every source fails, all three kinds of failure among them
C2_Witness ==
    /\ fst.pc = "raised"
    /\ outcomes[1].kind = "neterr"
    /\ outcomes[2].kind = "empty"
    /\ outcomes[4].kind = "nofield"
    /\ outcomes[6].kind = "empty"

PassFrames == {j \in 1..Len(stack) : stack[j].op = "check_prices"}

\* C3: no rule id is triggered more than once: at most one AlarmWindow is ever
\* created for it.
C3_TriggeredAtMostOnce == \A id \in Ids : alarms[id] <= 1

\* C4: no check_prices pass begins while another pass is between its snapshot
\* and its removal-and-save step: at most one pass is on the Tk thread's stack.
C4_PassesNeverOverlap == Cardinality(PassFrames) <= 1

\* a step by which the running pass returns (lines 716-726 were executed)
PassReturns ==
    /\ stack # <<>>
    /\ Top.pc = "loop"
    /\ Top.i > Len(Top.snapshot)
    /\ Len(stack') = Len(stack) - 1

\* a step of the running pass that is not its return
PassStep ==
    /\ stack # <<>>
    /\ Len(stack') = Len(stack)
    /\ stack' # stack

\* C5: a pass never returns before fetch_price_multi was called for every rule
\* of its snapshot, in snapshot order, whichever of the calls raised.
C5_EveryRuleIsFetched ==
    [][PassReturns => Top.fetched = Top.snapshot]_vars

\* a pass over two rules is about to return after both resolutions failed
C5_Witness ==
    /\ stack # <<>>
    /\ Top.pc = "loop"
    /\ Top.i > Len(Top.snapshot)
    /\ Len(Top.snapshot) = 2
    /\ Top.failed = 2
    /\ Top.fetched = Top.snapshot

HasArg(st, name, v) == <<name, v>> \in st.args

C7_NoPassWaitsForAcknowledgment ==
    \A j \in PassFrames : stack[j].pc # "warn"

\* the step that evaluates a fetched price
Evaluates ==
    /\ stack # <<>>
    /\ Top.pc = "loop"
    /\ Len(stack') = Len(stack)
    /\ Top'.pc = "update"

\* C8: when a price is fetched for a rule, the rule hits exactly if
\* price >= target_price under ">=" and exactly if price <= target_price
\* under "<=", target and condition being those of the rule; an AlarmWindow is
\* created for the rule exactly if it hits, and in no other step.
C8_HitDecisionIsExact ==
    [][/\ Evaluates =>
             LET id == Top.snapshot[Top.i]
                 f == Top'
             IN  /\ f.cond = dicts[id].condition
                 /\ f.target = dicts[id].target_price
                 /\ f.cond = ">=" => (f.hit <=> GE(Num(f.price), f.target))
                 /\ f.cond = "<=" => (f.hit <=> LE(Num(f.price), f.target))
                 /\ alarms'[id] = alarms[id] + (IF f.hit THEN 1 ELSE 0)
                 /\ \A x \in Ids \ {id} : alarms'[x] = alarms[x]
       /\ ~Evaluates => alarms' = alarms]_vars

\* a price equal to the target has hit under "<="
C8_Witness ==
    /\ stack # <<>>
    /\ Top.pc = "update"
    /\ Top.cond = "<="
    /\ Num(Top.price) = Top.target
    /\ Top.hit
    /\ alarms[Top.snapshot[Top.i]] = 1

\* C9: normalize_symbol applied to its own result returns that result.
C9_NormalizeIdempotent ==
    spc \in {"again", "translated"} => canon2 = canon

\* C10: for a canonical symbol BASE + "USDT" (a result of normalize_symbol
\* under the default quote), Binance, Bybit and BitUnix get the symbol
\* unchanged, Coinbase BASE + "-USD", Upbit "USDT-" + BASE, OKX BASE + "-USDT".
C10_TranslatorsDocumentedFormat ==
    (spc = "translated" /\ assume_quote = USDT /\ endswith(canon, USDT)) =>
        LET base == drop4(canon)
        IN  /\ pairs.binance = canon
            /\ pairs.bybit = canon
            /\ pairs.bitunix = canon
            /\ pairs.coinbase = base \o <<"-", "U", "S", "D">>
            /\ pairs.upbit = <<"U", "S", "D", "T", "-">> \o base
            /\ pairs.okx = base \o <<"-", "U", "S", "D", "T">>

\* "a/" was normalized to AUSDT and translated
C10_Witness ==
    /\ spc = "translated"
    /\ assume_quote = USDT
    /\ sym = <<"a", "/">>
    /\ canon = <<"A", "U", "S", "D", "T">>
    /\ pairs.upbit = <<"U", "S", "D", "T", "-", "A">>

\* C11: every rule in the list has a non-empty symbol, a target price above
\* zero and a condition that is ">=" or "<=", whatever was typed into the add
\* form and the edit dialog.
C11_ListedRulesAreValid ==
    \A j \in 1..Len(coins) :
        LET d == dicts[coins[j]]
        IN  /\ d.symbol # <<>>
            /\ GT(d.target_price, Num(0))
            /\ d.condition \in Conditions

\* a step in which save_settings stores an interval other than the current one
SavesInterval == check_interval_seconds' # check_interval_seconds

\* a step in which _schedule_poll arms a periodic timer while none is pending
ArmsTimer == poll_timers = <<>> /\ poll_timers' # <<>>

\* C12: a step that changes check_interval_seconds leaves the pending
\* periodic timers and their delays as they are, no other step changes the
\* delay of a timer that stays pending, and a timer that is armed gets the
\* delay check_interval_seconds * 1000 of the value current at that moment.
C12_IntervalChangeWaitsForNextArming ==
    [][/\ SavesInterval => poll_timers' = poll_timers
       /\ ArmsTimer => poll_timers' = <<check_interval_seconds * 1000>>
       /\ (PassReturns /\ Top.by = "timer") =>
             poll_timers' = Append(poll_timers, check_interval_seconds * 1000)
       /\ (poll_timers' # poll_timers /\ poll_timers' # <<>>) =>
             poll_timers'[Len(poll_timers')] = check_interval_seconds * 1000]_vars

\* the interval was changed from 60 to 10 while the timer armed with 60 s is
\* still pending
C12_Witness ==
    /\ stack = <<>>
    /\ status_var = Status("settings_saved", {})
    /\ check_interval_seconds = MinInterval
    /\ poll_timers = <<DefaultInterval * 1000>>

\* C13: a pass changes the rule list only when it returns, and then only by
\* removing the rules it marked, which are rules that hit in it: the list
\* after the return is the list before it, rules added during the pass
\* included and rules deleted during it excluded, without the marked rules and
\* in the same order; every rule that stays keeps its fields; and the other
\* steps of a pass leave the list and the rules as they are.
C13_PassOnlyRemovesItsHits ==
    [][/\ PassReturns =>
             /\ \A id \in Ids :
                   InSeq(id, coins') <=>
                       (InSeq(id, coins) /\ ~InSeq(id, Top.to_remove_ids))
             /\ \A j, k \in 1..Len(coins') :
                   (j < k) => (coins'[j] < coins'[k])
             /\ \A id \in Ids : InSeq(id, coins') => dicts'[id] = dicts[id]
             /\ \A id \in Ids :
                   InSeq(id, Top.to_remove_ids) =>
                       (InSeq(id, Top.snapshot) /\ alarms[id] >= 1)
       /\ PassStep => (coins' = coins /\ dicts' = dicts)]_vars

\* a pass is about to return that marked rule 1, while rule 2, added during
\* the pass, is in the list and not in the snapshot
C13_Witness ==
    /\ stack # <<>>
    /\ Top.pc = "loop"
    /\ Top.i > Len(Top.snapshot)
    /\ Top.snapshot = <<1>>
    /\ Top.to_remove_ids = <<1>>
    /\ coins = <<1, 2>>

TimerCallbacks == {j \in 1..Len(stack) : stack[j].by = "timer"}

\* a step in which a periodic timer fires, and one in which _on_poll_timer
\* re-arms after its pass
TimerFires == Len(poll_timers') = Len(poll_timers) - 1

TimerPassReturns == PassReturns /\ Top.by = "timer"

\* _on_poll_timer on an empty list: the timer fires and is armed again at once
TimerCycleOnEmptyList ==
    /\ coins = <<>>
    /\ Len(poll_timers') = Len(poll_timers)
    /\ status_var' = Status("no_alerts", {})

\* C14: the pending periodic timers and the _on_poll_timer callbacks that
\* are executing are one in all, so exactly one timer is pending whenever no
\* such callback executes; the pending timers change only when one fires or
\* when _on_poll_timer re-arms after its pass, which adds exactly one; the
\* one-second check is never scheduled again; and whenever the event loop is
\* idle after the one-second check, the periodic timer can fire.
C14_OnePeriodicTimer ==
    /\ [](Len(poll_timers) + Cardinality(TimerCallbacks) = 1)
    /\ []((stack = <<>> /\ ~initial_check) => ENABLED OnPollTimer)
    /\ [][/\ poll_timers' # poll_timers =>
                (TimerFires \/ TimerPassReturns \/ TimerCycleOnEmptyList)
          /\ TimerPassReturns => Len(poll_timers') = Len(poll_timers) + 1
          /\ initial_check' => initial_check]_vars

\* the periodic timer has fired and was armed again after the interval was
\* saved as 10 s, and a pass has returned since
C14_Witness ==
    /\ stack = <<>>
    /\ ~initial_check
    /\ poll_timers = <<MinInterval * 1000>>
    /\ status_var.key \in {"last_check_ok", "last_check_errors"}

\* the step in which a pass calls fetch_price_multi for its next rule
Fetches ==
    /\ stack # <<>>
    /\ Top.pc = "loop"
    /\ Top.i <= Len(Top.snapshot)
    /\ Len(stack') = Len(stack)
    /\ Top'.pc \in {"warn", "update"}

\* C15: a price is fetched, and an alarm raised, only for a rule that is in
\* the rule list: never for one that delete_selected has removed.
C15_DeletedRuleIsNotFetched ==
    [][Fetches => InSeq(Top.snapshot[Top.i], coins)]_vars

====
